---- MODULE Spec2Model ----
(***************************************************************************)
(* Lurker: the network-call capture and correlation component that runs in *)
(* the extension's background context (background.ts, src/core/src/types.ts *)
(* lines 51-346), together with the browser's durable flag storage and the *)
(* browser's webRequest event source.                                      *)
(*                                                                         *)
(* Every handler runs to completion on one event loop, so each handler is  *)
(* one action.  The only asynchronous boundaries are the durable-storage   *)
(* get issued at startup and the set issued by TOGGLE_RECORDING: the       *)
(* browser completes the sets in the order they were issued, serves the    *)
(* get at a time of its own, and delivers the get's callback to the        *)
(* background context as an event of its own.                              *)
(*                                                                         *)
(* The side panel (extension/src/panel/index.tsx) is the caller of the     *)
(* control messages; its handleSubmit is modelled step by step, one action *)
(* per stretch between two awaits.                                         *)
(***************************************************************************)
EXTENDS Integers, Sequences, FiniteSets, TLC

(***************************************************************************)
(* Bounds of the model.                                                    *)
(***************************************************************************)
\* the largest number of NetworkCall records the model lets the store hold
MaxCalls == 2
\* the largest number of storage writes in flight at once
MaxPendingWrites == 1

(***************************************************************************)
(* The inputs of the events.                                               *)
(***************************************************************************)
Tabs == {1, 2}
RequestIds == {"r1", "r2"}
ResourceTypes == {"xmlhttprequest", "fetch", "image"}
\* URLs and methods of XHR and fetch requests that new Request(url, {method})
\* of lines 115-118 accepts: no credentials embedded in the URL, no forbidden
\* method, no body on GET or HEAD
Urls == {"https://a/x"}
Methods == {"GET"}
\* values Date.now() returns
Timestamps == {1000}
\* status codes of a completion; a server may answer with any three-digit
\* code, and the Response constructor refuses those above 599
StatusCodes == {200, 999}
\* the enabled field of a TOGGLE_RECORDING message: <<>> when it is absent
EnabledFields == {<<>>, <<TRUE>>, <<FALSE>>}

VARIABLES
    networkCallsByTab,   \* tab id -> sequence of NetworkCall
    isRecordingEnabled,  \* the in-memory recording flag
    storage,             \* durable storage key isRecordingEnabled: <<>> or <<b>>
    pendingWrites,       \* chrome.storage.local.set calls not yet completed
    load,                \* the startup chrome.storage.local.get: "issued", "done"
    requests,            \* the browser's requests: lifecycle stage and tab
    toggles,             \* history of TOGGLE_RECORDING messages carrying a field
    observed,            \* per tab, the qualifying starts seen since the last clear
    last,                \* the event handled last and what its handler returned
    panel,               \* the side panel: its React state and its submit in progress
    agent                \* the agent backend: the POST /chat it is handling

vars == <<networkCallsByTab, isRecordingEnabled, storage, pendingWrites,
          load, requests, toggles, observed, last, panel, agent>>

(***************************************************************************)
(* NetworkCall records (core/src/types.ts).                                *)
(***************************************************************************)
\* response: NetworkResponse | null
NullResponse == [isNull |-> TRUE]

NetworkRequest(url, method, requestId, ts) ==
    [url |-> url, method |-> method, timestamp |-> ts, requestId |-> requestId]

NetworkResponse(statusCode, requestId, ts) ==
    [isNull |-> FALSE, status |-> statusCode, timestamp |-> ts,
     requestId |-> requestId]

NetworkCall(request) == [request |-> request, response |-> NullResponse]

isXhrOrFetch(type) == type = "xmlhttprequest" \/ type = "fetch"

\* new Response(null, {status}) throws a RangeError outside 200..599
ResponseThrows(statusCode) == statusCode < 200 \/ statusCode > 599

EmptyStore == [t \in {} |-> <<>>]

TotalCalls(byTab) ==
    LET RECURSIVE Sum(_)
        Sum(S) == IF S = {} THEN 0
                  ELSE LET t == CHOOSE x \in S : TRUE
                       IN Len(byTab[t]) + Sum(S \ {t})
    IN Sum(DOMAIN byTab)

(***************************************************************************)
(* The record of the event handled last: which handler ran, on what input, *)
(* and what it gave back (the listener's return value, the reply passed to *)
(* sendResponse).                                                          *)
(***************************************************************************)
NoEvent ==
    [kind |-> "none", outcome |-> "", tabId |-> 0, enabled |-> <<>>,
     cancel |-> FALSE, replied |-> FALSE, replies |-> 0, reply |-> <<>>]

Event(kind, outcome) == [NoEvent EXCEPT !.kind = kind, !.outcome = outcome]

(***************************************************************************)
(* Startup of the background context: lines 54-65 run top to bottom.       *)
(***************************************************************************)
\* lastValue: the field of the latest TOGGLE_RECORDING that carried one;
\* cleanStart: when this context started no write was in flight, and it has
\* handled no TOGGLE_RECORDING carrying a field since
NoToggles == [lastValue |-> <<>>, cleanStart |-> TRUE]

\* the side panel before it is opened: nothing loaded, no submit in progress
\* messages: the conversation shown; posts: the POST /chat requests of the
\* latest submit; chat: how the latest fetch of /chat ended; mounted: the
\* mount effect has run; isRecording: the recording state shown; outbox: the
\* messages sent to the background and not yet handled; inbox: the replies
\* on their way to the callbacks
PanelClosed ==
    [pc |-> "idle", loading |-> FALSE, networkCalls |-> <<>>, posted |-> <<>>,
     messages |-> <<>>, posts |-> 0, chat |-> "", mounted |-> FALSE,
     isRecording |-> TRUE, outbox |-> <<>>, inbox |-> <<>>]

\* the agent backend listening, no request handled yet
AgentIdle ==
    [pc |-> "listening", body |-> <<>>, messages |-> <<>>,
     networkCalls |-> <<>>, summary |-> <<>>, llm |-> "",
     response |-> <<>>]

Init ==
    /\ networkCallsByTab = EmptyStore
    /\ isRecordingEnabled = TRUE
    /\ storage = <<>>
    /\ pendingWrites = <<>>
    /\ load = "issued"
    /\ requests = [r \in RequestIds |-> [phase |-> "new", tabId |-> 0]]
    /\ observed = [t \in Tabs |-> <<>>]
    /\ toggles = NoToggles
    /\ last = NoEvent
    /\ panel = PanelClosed
    /\ agent = AgentIdle

\* the service worker is stopped and started again: in-memory state is lost,
\* durable storage and the writes already handed to the browser are not
Restart ==
    /\ networkCallsByTab' = EmptyStore
    /\ isRecordingEnabled' = TRUE
    /\ load' = "issued"
    /\ toggles' = [toggles EXCEPT !.cleanStart = (pendingWrites = <<>>)]
    /\ observed' = [t \in Tabs |-> <<>>]
    /\ last' = Event("restart", "")
    /\ UNCHANGED <<agent, panel, storage, pendingWrites, requests>>

\* LoadedFlag with a bug: the stored value is not taken over
LoadedFlag_KeepsDefault(result, flag) == flag

\* the value the get's callback leaves in isRecordingEnabled (lines 61-64)
LoadedFlag(result, flag) == IF result # <<>> THEN result[1] ELSE flag

\* the browser serves the get and its callback runs: the result object holds
\* the key iff storage does at that time
StorageGetCallback ==
    /\ load = "issued"
    /\ isRecordingEnabled' = LoadedFlag(storage, isRecordingEnabled)
    /\ load' = "done"
    /\ last' = Event("loaded", "")
    /\ UNCHANGED <<agent, panel, networkCallsByTab, storage, pendingWrites, requests,
                   toggles, observed>>

\* the browser completes the oldest chrome.storage.local.set
StorageSetCompleted ==
    /\ pendingWrites # <<>>
    /\ storage' = <<Head(pendingWrites)>>
    /\ pendingWrites' = Tail(pendingWrites)
    /\ UNCHANGED <<agent, panel, networkCallsByTab, isRecordingEnabled, load, requests,
                   toggles, observed, last>>

(***************************************************************************)
(* chrome.webRequest.onBeforeRequest listener (lines 97-135).              *)
(***************************************************************************)
\* lines 100-107: the two early returns
BeforeRequestStores(type, flag) == isXhrOrFetch(type) /\ flag

\* AppendCall with a bug: a call whose URL the tab already holds is dropped
AppendCall_Dedup(byTab, tabId, callData) ==
    LET withTab == IF tabId \in DOMAIN byTab THEN byTab
                   ELSE byTab @@ (tabId :> <<>>)
    IN IF \E i \in 1..Len(withTab[tabId]) :
             withTab[tabId][i].request.url = callData.request.url
       THEN withTab
       ELSE [withTab EXCEPT ![tabId] = Append(@, callData)]

\* lines 110-112 and 129
AppendCall(byTab, tabId, callData) ==
    LET withTab == IF tabId \in DOMAIN byTab THEN byTab
                   ELSE byTab @@ (tabId :> <<>>)
    IN [withTab EXCEPT ![tabId] = Append(@, callData)]

\* BeforeRequestReturn with a bug: a request seen while recording is off is
\* cancelled
BeforeRequestReturn_CancelWhenOff(type, flag) ==
    IF ~isXhrOrFetch(type) THEN [cancel |-> FALSE]
    ELSE IF ~flag THEN [cancel |-> TRUE]
    ELSE [cancel |-> FALSE]

\* the listener's return value on each of its three paths (101, 106, 131)
BeforeRequestReturn(type, flag) ==
    IF ~isXhrOrFetch(type) THEN [cancel |-> FALSE]
    ELSE IF ~flag THEN [cancel |-> FALSE]
    ELSE [cancel |-> FALSE]

\* what the listener did: for the record of the last event only
StartOutcome(type, tabId) ==
    IF ~isXhrOrFetch(type) THEN "filtered"
    ELSE IF ~isRecordingEnabled THEN "disabled"
    ELSE IF last.kind = "tabRemoved" /\ last.outcome = "deleted"
            /\ last.tabId = tabId
         THEN "storedAfterRemoval"
    ELSE "stored"

OnBeforeRequest(type, tabId, requestId, url, method, ts) ==
    /\ networkCallsByTab' =
         IF BeforeRequestStores(type, isRecordingEnabled)
         THEN AppendCall(networkCallsByTab, tabId,
                         NetworkCall(NetworkRequest(url, method, requestId, ts)))
         ELSE networkCallsByTab
    /\ observed' = IF type \in {"xmlhttprequest", "fetch"}
                       /\ isRecordingEnabled = TRUE
                    THEN [observed EXCEPT ![tabId] =
                            Append(@, [url |-> url, method |-> method,
                                       timestamp |-> ts,
                                       requestId |-> requestId])]
                    ELSE observed
    /\ last' = [Event("start", StartOutcome(type, tabId)) EXCEPT
                  !.cancel = BeforeRequestReturn(type, isRecordingEnabled).cancel]
    /\ UNCHANGED <<agent, panel, isRecordingEnabled, storage, pendingWrites, load, toggles>>

(***************************************************************************)
(* chrome.webRequest.onCompleted listener (lines 138-176).                 *)
(***************************************************************************)
\* FindCall with a bug: the predicate does not look at the request id
FindCall_IgnoresId(calls, requestId) == IF Len(calls) > 0 THEN 1 ELSE 0

\* FindCall with a bug: the last call with that request id is taken
FindCall_Last(calls, requestId) ==
    IF \E i \in 1..Len(calls) : calls[i].request.requestId = requestId
    THEN CHOOSE i \in 1..Len(calls) :
            /\ calls[i].request.requestId = requestId
            /\ \A j \in (i + 1)..Len(calls) :
                  calls[j].request.requestId # requestId
    ELSE 0

\* Array.prototype.find: the index of the first call with that request id, or 0
FindCall(calls, requestId) ==
    IF \E i \in 1..Len(calls) : calls[i].request.requestId = requestId
    THEN CHOOSE i \in 1..Len(calls) :
            /\ calls[i].request.requestId = requestId
            /\ \A j \in 1..(i - 1) : calls[j].request.requestId # requestId
    ELSE 0

\* AttachResponse with a bug: filter-and-update instead of find: every call
\* with the request id gets the response
AttachResponse_AllMatches(byTab, tabId, requestId, response) ==
    IF tabId \notin DOMAIN byTab THEN byTab
    ELSE [byTab EXCEPT ![tabId] =
            [i \in 1..Len(@) |->
                IF @[i].request.requestId = requestId
                THEN [@[i] EXCEPT !.response = response]
                ELSE @[i]]]

\* AttachResponse with a bug: a response that matches no call is stored as a
\* call of its own
AttachResponse_Upsert(byTab, tabId, requestId, response) ==
    LET withTab == IF tabId \in DOMAIN byTab THEN byTab
                   ELSE byTab @@ (tabId :> <<>>)
        i == FindCall(withTab[tabId], requestId)
    IN IF i = 0
       THEN [withTab EXCEPT ![tabId] =
               Append(@, [request |-> NetworkRequest("", "", requestId, 0),
                          response |-> response])]
       ELSE [withTab EXCEPT ![tabId][i].response = response]

\* AttachResponse with a bug: the completed call is taken out of its place and
\* put at the end of the tab's sequence, so the sequence is in response order
AttachResponse_MovesToEnd(byTab, tabId, requestId, response) ==
    IF tabId \notin DOMAIN byTab THEN byTab
    ELSE LET i == FindCall(byTab[tabId], requestId)
             calls == byTab[tabId]
         IN IF i = 0 THEN byTab
            ELSE [byTab EXCEPT ![tabId] =
                    Append(SubSeq(calls, 1, i - 1)
                              \o SubSeq(calls, i + 1, Len(calls)),
                           [calls[i] EXCEPT !.response = response])]

\* AttachResponse with a bug: the call is looked for in every tab, not only in
\* the tab of the completion
AttachResponse_AnyTab(byTab, tabId, requestId, response) ==
    [t \in DOMAIN byTab |->
        LET i == FindCall(byTab[t], requestId)
        IN IF i = 0 THEN byTab[t]
           ELSE [byTab[t] EXCEPT ![i].response = response]]

\* AttachResponse with a bug: like the start listener, the completion listener
\* creates the tab's entry when it is missing
AttachResponse_CreatesKey(byTab, tabId, requestId, response) ==
    LET withTab == IF tabId \in DOMAIN byTab THEN byTab
                   ELSE byTab @@ (tabId :> <<>>)
        i == FindCall(withTab[tabId], requestId)
    IN IF i = 0 THEN withTab
       ELSE [withTab EXCEPT ![tabId][i].response = response]

\* lines 163-170
AttachResponse(byTab, tabId, requestId, response) ==
    IF tabId \notin DOMAIN byTab THEN byTab
    ELSE LET i == FindCall(byTab[tabId], requestId)
         IN IF i = 0 THEN byTab
            ELSE [byTab EXCEPT ![tabId][i].response = response]

\* CompletedAttaches with a bug: the resource type filter is missing
CompletedAttaches_AnyType(type, flag, statusCode) ==
    flag /\ ~ResponseThrows(statusCode)

\* CompletedAttaches with a bug: the recording flag is not looked at
CompletedAttaches_IgnoresFlag(type, flag, statusCode) ==
    isXhrOrFetch(type) /\ ~ResponseThrows(statusCode)

\* lines 141-148 and the try/catch of 150-173
CompletedAttaches(type, flag, statusCode) ==
    isXhrOrFetch(type) /\ flag /\ ~ResponseThrows(statusCode)

\* what the listener did: for the record of the last event only
CompletedOutcome(type, tabId, requestId, statusCode) ==
    IF ~isXhrOrFetch(type) THEN "filtered"
    ELSE IF ~isRecordingEnabled THEN "disabled"
    ELSE IF ResponseThrows(statusCode) THEN "threw"
    ELSE IF tabId \in DOMAIN networkCallsByTab
            /\ FindCall(networkCallsByTab[tabId], requestId) # 0
         THEN "attached"
    ELSE "nomatch"

OnCompleted(type, tabId, requestId, statusCode, ts) ==
    /\ networkCallsByTab' =
         IF CompletedAttaches(type, isRecordingEnabled, statusCode)
         THEN AttachResponse(networkCallsByTab, tabId, requestId,
                             NetworkResponse(statusCode, requestId, ts))
         ELSE networkCallsByTab
    /\ last' = Event("completed", CompletedOutcome(type, tabId, requestId,
                                                    statusCode))
    /\ UNCHANGED <<agent, panel, isRecordingEnabled, storage, pendingWrites, load, toggles,
                   observed>>

(***************************************************************************)
(* The browser's webRequest event source.  Under Spec the two listeners    *)
(* are called with any details whatever.  Under SpecChrome the events      *)
(* follow the webRequest contract: a request id is assigned once per       *)
(* browser session; onBeforeRequest fires when the request starts and      *)
(* again, with the same id, tab and type, on every redirect; onCompleted   *)
(* fires at most once per request, after its start.                        *)
(***************************************************************************)
RequestStart ==
    \E r \in RequestIds, t \in Tabs, ty \in ResourceTypes, u \in Urls,
       m \in Methods, ts \in Timestamps :
        /\ TotalCalls(networkCallsByTab) < MaxCalls
        /\ OnBeforeRequest(ty, t, r, u, m, ts)
        /\ UNCHANGED requests

RequestCompleted ==
    \E r \in RequestIds, t \in Tabs, ty \in ResourceTypes, sc \in StatusCodes,
       ts \in Timestamps :
        /\ OnCompleted(ty, t, r, sc, ts)
        /\ UNCHANGED requests

\* the resource type of each request of the session, fixed for its lifetime
ChromeType(r) == IF r = "r1" THEN "xmlhttprequest" ELSE "fetch"

ChromeRequestStart ==
    \E r \in RequestIds, t \in Tabs, u \in Urls, m \in Methods,
       ts \in Timestamps :
        /\ requests[r].phase \in {"new", "started"}
        /\ requests[r].phase = "started" => t = requests[r].tabId
        /\ TotalCalls(networkCallsByTab) < MaxCalls
        /\ requests' = [requests EXCEPT
                          ![r] = [phase |-> "started", tabId |-> t]]
        /\ OnBeforeRequest(ChromeType(r), t, r, u, m, ts)

ChromeRequestCompleted ==
    \E r \in RequestIds, sc \in StatusCodes, ts \in Timestamps :
        /\ requests[r].phase = "started"
        /\ requests' = [requests EXCEPT ![r].phase = "done"]
        /\ OnCompleted(ChromeType(r), requests[r].tabId, r, sc, ts)

(***************************************************************************)
(* chrome.tabs listeners (lines 178-197).                                  *)
(***************************************************************************)
\* RemoveTab with a bug: the tab's list is emptied and its key kept
RemoveTab_KeepsKey(byTab, tabId) ==
    [t \in DOMAIN byTab |-> IF t = tabId THEN <<>> ELSE byTab[t]]

\* RemoveTab with a bug: closing one tab drops the calls of every tab
RemoveTab_DropsAll(byTab, tabId) == EmptyStore

\* delete networkCallsByTab[tabId]
RemoveTab(byTab, tabId) == [t \in DOMAIN byTab \ {tabId} |-> byTab[t]]

\* ClearAll with a bug: only the tab with the smallest id is emptied
ClearAll_FirstTabOnly(byTab) ==
    [t \in DOMAIN byTab |->
        IF \A u \in DOMAIN byTab : t <= u THEN <<>> ELSE byTab[t]]

\* ClearAll with a bug: the store is reset to {} and the keys are lost
ClearAll_DropsKeys(byTab) == EmptyStore

\* for (const tabId in networkCallsByTab) networkCallsByTab[tabId] = []
ClearAll(byTab) == [t \in DOMAIN byTab |-> <<>>]

\* what a clear found: for the record of the last event only
ClearOutcome ==
    LET full == {t \in DOMAIN networkCallsByTab : networkCallsByTab[t] # <<>>}
    IN IF Cardinality(full) > 1 THEN "clearedMany"
       ELSE IF full # {} THEN "clearedOne" ELSE "nothing"

OnTabRemoved(tabId) ==
    /\ networkCallsByTab' = RemoveTab(networkCallsByTab, tabId)
    /\ observed' = [observed EXCEPT ![tabId] = <<>>]
    /\ last' = IF tabId \in DOMAIN networkCallsByTab
               THEN [Event("tabRemoved", "deleted") EXCEPT !.tabId = tabId]
               ELSE Event("tabRemoved", "absent")
    /\ UNCHANGED <<agent, panel, isRecordingEnabled, storage, pendingWrites, load,
                   requests, toggles>>

\* activeInfo.tabId is read and not used
OnTabActivated(tabId) ==
    /\ networkCallsByTab' = ClearAll(networkCallsByTab)
    /\ observed' = [t \in Tabs |-> <<>>]
    /\ last' = Event("tabActivated", ClearOutcome)
    /\ UNCHANGED <<agent, panel, isRecordingEnabled, storage, pendingWrites, load,
                   requests, toggles>>

TabRemoved == \E t \in Tabs : OnTabRemoved(t)

TabActivated == \E t \in Tabs : OnTabActivated(t)

(***************************************************************************)
(* Serialization (lines 280-346) and the chrome.runtime.onMessage listener *)
(* (lines 206-275).                                                        *)
(***************************************************************************)
\* the replacer's answer for a Request (lines 282-301)
SerializeRequest(req) ==
    [jsType |-> "Request", url |-> req.url, method |-> req.method,
     timestamp |-> req.timestamp, requestId |-> req.requestId]

\* SerializeResponse with a bug: only the standard properties of a Response
\* are copied, the timestamp and requestId the listener added are left out
SerializeResponse_StandardOnly(res) ==
    [jsType |-> "Response", status |-> res.status]

\* the replacer's answer for a Response (lines 304-321)
SerializeResponse(res) ==
    [jsType |-> "Response", status |-> res.status,
     timestamp |-> res.timestamp, requestId |-> res.requestId]

\* JSON.parse(JSON.stringify(call, serializeNetworkCalls)): null stays null
SerializeCall(call) ==
    [request |-> SerializeRequest(call.request),
     response |-> IF call.response = NullResponse THEN NullResponse
                  ELSE SerializeResponse(call.response)]

\* Object.values(networkCallsByTab): integer keys come in ascending order
RECURSIVE FlattenTabs(_, _)
FlattenTabs(byTab, keys) ==
    IF keys = {} THEN <<>>
    ELSE LET t == CHOOSE x \in keys : \A y \in keys : x <= y
         IN byTab[t] \o FlattenTabs(byTab, keys \ {t})

\* GetNetworkCallsReply with a bug: calls still waiting for their response are
\* left out of the reply
GetNetworkCallsReply_CompletedOnly(byTab) ==
    LET allNetworkCalls == FlattenTabs(byTab, DOMAIN byTab)
        completed == SelectSeq(allNetworkCalls,
                               LAMBDA c : c.response # NullResponse)
    IN [i \in 1..Len(completed) |-> SerializeCall(completed[i])]

\* lines 215-226: the reply of GET_NETWORK_CALLS
GetNetworkCallsReply(byTab) ==
    LET allNetworkCalls == FlattenTabs(byTab, DOMAIN byTab)
    IN [i \in 1..Len(allNetworkCalls) |-> SerializeCall(allNetworkCalls[i])]

\* Message with a bug: sendResponse is called in the branch and once more
\* after it
Message_RepliesTwice(kind) ==
    [Event(kind, "") EXCEPT !.replied = TRUE, !.replies = 2]

\* every branch of the listener calls sendResponse once before its return
\* (lines 226 or 229, 246, 265, 273); replies counts the calls
Message(kind) == [Event(kind, "") EXCEPT !.replied = TRUE, !.replies = 1]

GetNetworkCalls ==
    /\ last' = [Message("GET_NETWORK_CALLS") EXCEPT
                  !.reply = GetNetworkCallsReply(networkCallsByTab)]
    /\ UNCHANGED <<agent, panel, networkCallsByTab, isRecordingEnabled, storage, pendingWrites,
                   load, requests, toggles, observed>>

\* ClearNetworkCalls with a bug: clearing also switches recording back on
ClearNetworkCalls_ResumesRecording ==
    /\ networkCallsByTab' = ClearAll(networkCallsByTab)
    /\ isRecordingEnabled' = TRUE
    /\ observed' = [t \in Tabs |-> <<>>]
    /\ last' = [Message("CLEAR_NETWORK_CALLS") EXCEPT
                  !.outcome = ClearOutcome,
                  !.reply = <<[success |-> TRUE]>>]
    /\ UNCHANGED <<agent, panel, storage, pendingWrites, load, requests,
                   toggles>>

ClearNetworkCalls ==
    /\ networkCallsByTab' = ClearAll(networkCallsByTab)
    /\ observed' = [t \in Tabs |-> <<>>]
    /\ last' = [Message("CLEAR_NETWORK_CALLS") EXCEPT
                  !.outcome = ClearOutcome,
                  !.reply = <<[success |-> TRUE]>>]
    /\ UNCHANGED <<agent, panel, isRecordingEnabled, storage, pendingWrites, load, requests,
                   toggles>>

\* ToggledFlag with a bug: the message flips the flag instead of setting it
ToggledFlag_Flips(enabled, flag) == IF enabled # <<>> THEN ~flag ELSE flag

\* ToggledFlag with a bug: no hasOwnProperty test, a message without the
\* field sets the flag to !!undefined
ToggledFlag_NoFieldMeansOff(enabled, flag) ==
    IF enabled # <<>> THEN enabled[1] ELSE FALSE

\* lines 255-256: the flag after a TOGGLE_RECORDING; enabled is <<>> when the
\* message has no such field
ToggledFlag(enabled, flag) == IF enabled # <<>> THEN enabled[1] ELSE flag

\* ToggledWrites with a bug: a toggle that leaves the flag as it was is not
\* written
ToggledWrites_OnlyOnChange(enabled, flag, writes) ==
    IF enabled # <<>> /\ ToggledFlag(enabled, flag) # flag
    THEN Append(writes, ToggledFlag(enabled, flag))
    ELSE writes

\* lines 260-262: the writes in flight after a TOGGLE_RECORDING
ToggledWrites(enabled, flag, writes) ==
    IF enabled # <<>> THEN Append(writes, ToggledFlag(enabled, flag)) ELSE writes

\* ToggleRecording with a bug: switching recording off drops what was captured
ToggleRecording_DropsCalls ==
    \E enabled \in EnabledFields :
        /\ enabled # <<>> => Len(pendingWrites) < MaxPendingWrites
        /\ isRecordingEnabled' = ToggledFlag(enabled, isRecordingEnabled)
        /\ pendingWrites' =
              ToggledWrites(enabled, isRecordingEnabled, pendingWrites)
        /\ toggles' = IF enabled # <<>>
                      THEN [lastValue |-> enabled, cleanStart |-> FALSE]
                      ELSE toggles
        /\ networkCallsByTab' = IF isRecordingEnabled' THEN networkCallsByTab
                                ELSE ClearAll(networkCallsByTab)
        /\ last' = [Message("TOGGLE_RECORDING") EXCEPT
                      !.enabled = enabled,
                      !.reply = <<[success |-> TRUE,
                                   enabled |-> isRecordingEnabled']>>]
        /\ UNCHANGED <<agent, panel, storage, load, requests, observed>>

ToggleRecording ==
    \E enabled \in EnabledFields :
        /\ enabled # <<>> => Len(pendingWrites) < MaxPendingWrites
        /\ isRecordingEnabled' = ToggledFlag(enabled, isRecordingEnabled)
        /\ pendingWrites' =
              ToggledWrites(enabled, isRecordingEnabled, pendingWrites)
        /\ toggles' = IF enabled # <<>>
                      THEN [lastValue |-> enabled, cleanStart |-> FALSE]
                      ELSE toggles
        /\ last' = [Message("TOGGLE_RECORDING") EXCEPT
                      !.enabled = enabled,
                      !.reply = <<[success |-> TRUE,
                                   enabled |-> isRecordingEnabled']>>]
        /\ UNCHANGED <<agent, panel, networkCallsByTab, storage, load, requests, observed>>

\* GetRecordingStatus with a bug: the reply is read from durable storage, not
\* from the in-memory flag
GetRecordingStatus_ReadsStorage ==
    /\ last' = [Message("GET_RECORDING_STATUS") EXCEPT
                  !.reply = <<[success |-> TRUE,
                               enabled |-> IF storage = <<>> THEN TRUE
                                           ELSE storage[1]]>>]
    /\ UNCHANGED <<agent, panel, networkCallsByTab, isRecordingEnabled, storage,
                   pendingWrites, load, requests, toggles, observed>>

GetRecordingStatus ==
    /\ last' = [Message("GET_RECORDING_STATUS") EXCEPT
                  !.reply = <<[success |-> TRUE,
                               enabled |-> isRecordingEnabled]>>]
    /\ UNCHANGED <<agent, panel, networkCallsByTab, isRecordingEnabled, storage, pendingWrites,
                   load, requests, toggles, observed>>

\* OtherMessage with a bug: a final sendResponse answers unknown types
OtherMessage_Replies ==
    /\ last' = [Message("OTHER_MESSAGE") EXCEPT
                  !.reply = <<[success |-> FALSE]>>]
    /\ UNCHANGED <<agent, panel, networkCallsByTab, isRecordingEnabled, storage, pendingWrites,
                   load, requests, toggles, observed>>

\* a message of any other type falls through every if: no reply
OtherMessage ==
    /\ last' = Event("OTHER_MESSAGE", "")
    /\ UNCHANGED <<agent, panel, networkCallsByTab, isRecordingEnabled, storage, pendingWrites,
                   load, requests, toggles, observed>>

Next ==
    \/ Restart
    \/ StorageGetCallback
    \/ StorageSetCompleted
    \/ RequestStart
    \/ RequestCompleted
    \/ TabRemoved
    \/ TabActivated
    \/ GetNetworkCalls
    \/ ClearNetworkCalls
    \/ ToggleRecording
    \/ GetRecordingStatus
    \/ OtherMessage

Spec == Init /\ [][Next]_vars

NextChrome ==
    \/ Restart
    \/ StorageGetCallback
    \/ StorageSetCompleted
    \/ ChromeRequestStart
    \/ ChromeRequestCompleted
    \/ TabRemoved
    \/ TabActivated
    \/ GetNetworkCalls
    \/ ClearNetworkCalls
    \/ ToggleRecording
    \/ GetRecordingStatus
    \/ OtherMessage

SpecChrome == Init /\ [][NextChrome]_vars

\* the requests a tab holds, in stored order; none when the tab has no key
StoredRequests(byTab, t) ==
    IF t \in DOMAIN byTab
    THEN [i \in 1..Len(byTab[t]) |-> byTab[t][i].request]
    ELSE <<>>

(***************************************************************************)
(* The catch block of the GET_NETWORK_CALLS branch (lines 227-230): what    *)
(* the handler does when its try block throws, as push(...tabCalls) does    *)
(* beyond the engine's argument limit and JSON.stringify beyond its string  *)
(* length limit.  SpecFault lets the try block throw at any GET_NETWORK_CALLS.*)
(***************************************************************************)
\* GetNetworkCallsThrows with a bug: no catch block, the caller gets no reply
GetNetworkCallsThrows_Uncaught ==
    /\ last' = [Event("GET_NETWORK_CALLS", "failed") EXCEPT !.replied = FALSE]
    /\ UNCHANGED <<agent, panel, networkCallsByTab, isRecordingEnabled, storage,
                   pendingWrites, load, requests, toggles, observed>>

GetNetworkCallsThrows ==
    /\ last' = [Message("GET_NETWORK_CALLS") EXCEPT
                  !.outcome = "failed", !.reply = <<>>]
    /\ UNCHANGED <<agent, panel, networkCallsByTab, isRecordingEnabled, storage,
                   pendingWrites, load, requests, toggles, observed>>

NextFault ==
    \/ GetNetworkCallsThrows
    \/ GetNetworkCalls
    \/ ClearNetworkCalls
    \/ ToggleRecording
    \/ StorageSetCompleted
    \/ GetRecordingStatus
    \/ ChromeRequestStart
    \/ ChromeRequestCompleted
    \/ TabRemoved

SpecFault == Init /\ [][NextFault]_vars

(***************************************************************************)
(* One page polling one endpoint: qualifying starts on end, no tab switch,  *)
(* no clear and no tab close in between.  RecentCallsLimit is the only      *)
(* limit the repository has, the 100 most recent calls of README.md line 92 *)
(* and of handleSubmit's slice(-100).                                      *)
(***************************************************************************)
RecentCallsLimit == 100

\* the browser's id of the i-th request of the session
RequestIdOf(i) == "r" \o ToString(i)

PollingRequestStart ==
    \E t \in Tabs, u \in Urls, m \in Methods, ts \in Timestamps :
        /\ TotalCalls(networkCallsByTab) <= RecentCallsLimit
        /\ DOMAIN networkCallsByTab \subseteq {t}
        /\ OnBeforeRequest("fetch", t,
                           RequestIdOf(TotalCalls(networkCallsByTab) + 1),
                           u, m, ts)
        /\ UNCHANGED requests

NextGrowth ==
    \/ PollingRequestStart
    \/ GetNetworkCalls

SpecGrowth == Init /\ [][NextGrowth]_vars

(***************************************************************************)
(* The agent backend (agent/src/index.ts): POST /chat builds a one-message  *)
(* conversation, the process_message node puts a summary of the posted      *)
(* network calls in front of it and invokes the model, and the handler      *)
(* answers with the messages of the workflow's final state.  The calls of   *)
(* a body are plain records as JSON.parse gives them; a request may lack    *)
(* its timestamp.                                                           *)
(***************************************************************************)
\* the largest networkCalls array a request body carries
MaxPosted == 32

\* slice(0, 30) of formatNetworkCalls
SummaryLimit == 30

\* how the request timestamps of a body's calls run: rising, falling, all
\* equal, up and down with repeats, and every third one missing
TimestampPatterns == {"rising", "falling", "equal", "mixed", "gaps"}

PostedTimestamp(i, pattern) ==
    CASE pattern = "rising"  -> 1000 + i
      [] pattern = "falling" -> 2000 - i
      [] pattern = "equal"   -> 1500
      [] pattern = "mixed"   -> 1000 + ((i * 7) % 5)
      [] OTHER               -> 1000 + i

\* the i-th call of a body: a completed call as the panel posts it
PostedCall(i, pattern) ==
    [request |->
        IF pattern = "gaps" /\ i % 3 = 0
        THEN [jsType |-> "Request", url |-> "https://a/" \o ToString(i),
              method |-> "GET", requestId |-> RequestIdOf(i)]
        ELSE [jsType |-> "Request", url |-> "https://a/" \o ToString(i),
              method |-> "GET", requestId |-> RequestIdOf(i),
              timestamp |-> PostedTimestamp(i, pattern)],
     response |-> [jsType |-> "Response", status |-> 200,
                   timestamp |-> 3000 + i, requestId |-> RequestIdOf(i)]]

\* req.body: the message ("" when it is missing or empty) and the
\* networkCalls field, <<>> when it is missing or not an array
ChatMessages == {"", "which call failed?"}

ChatBodies ==
    {[message |-> m, networkCalls |-> <<>>] : m \in ChatMessages}
    \cup {[message |-> m,
           networkCalls |-> <<[i \in 1..n |-> PostedCall(i, pattern)]>>] :
             m \in ChatMessages, n \in 0..MaxPosted,
             pattern \in TimestampPatterns}

\* how llm.invoke settles: with the model's answer, or rejected with an Error
LlmOutcomes ==
    {[ok |-> TRUE, text |-> "the answer"],
     [ok |-> FALSE, text |-> "fetch failed"]}

HumanMessage(content) == [type |-> "human", content |-> content]
AIMessage(content) == [type |-> "ai", content |-> content]

\* message.toDict(): the StoredMessage the client parses
toDict(message) ==
    [type |-> message.type, data |-> [content |-> message.content]]

\* a.request?.timestamp || 0
RequestTime(call) ==
    IF "timestamp" \in DOMAIN call.request THEN call.request.timestamp ELSE 0

\* CompareCalls with a bug: aTime - bTime, the oldest call first
CompareCalls_OldestFirst(a, b) == RequestTime(a) - RequestTime(b)

\* the comparator of lines 125-129: bTime - aTime
CompareCalls(a, b) == RequestTime(b) - RequestTime(a)

\* Array.prototype.sort with the comparator, which is stable: each call is
\* placed behind the calls already placed that do not have to come after it
RECURSIVE InsertCall(_, _)
InsertCall(sorted, call) ==
    IF sorted = <<>> THEN <<call>>
    ELSE IF CompareCalls(sorted[Len(sorted)], call) <= 0
         THEN Append(sorted, call)
         ELSE Append(InsertCall(SubSeq(sorted, 1, Len(sorted) - 1), call),
                     sorted[Len(sorted)])

RECURSIVE SortCalls(_)
SortCalls(calls) ==
    IF calls = <<>> THEN <<>>
    ELSE InsertCall(SortCalls(SubSeq(calls, 1, Len(calls) - 1)),
                    calls[Len(calls)])

\* Array.prototype.slice(0, n)
SliceFirst(calls, n) ==
    IF Len(calls) <= n THEN calls ELSE SubSeq(calls, 1, n)

\* one entry of the summary (lines 132-146): its number, time, method, url
\* and status; a timestamp that is missing or 0 reads 'unknown time'
FormatCall(call, index) ==
    [index |-> index,
     time |-> IF RequestTime(call) # 0
              THEN <<"ISO", RequestTime(call)>> ELSE <<"unknown time">>,
     method |-> call.request.method,
     url |-> call.request.url,
     status |-> call.response.status]

\* lines 119-147: the entries of the summary, none for an empty list ("No
\* network calls captured yet.")
formatNetworkCalls(networkCalls) ==
    LET shown == SliceFirst(SortCalls(networkCalls), SummaryLimit)
    IN [index \in 1..Len(shown) |-> FormatCall(shown[index], index)]

\* the reducer of both channels (lines 45-56): [...old, ...new_val]
ChannelReducer(old, new_val) == old \o new_val

\* WorkflowResponse with a bug: the node has no catch, the rejection reaches
\* the handler's catch block and the client gets HTTP 500
WorkflowResponse_Uncaught(messages, outcome) ==
    IF outcome.ok
    THEN LET returned == Append(messages, AIMessage(outcome.text))
             result == ChannelReducer(messages, returned)
         IN [status |-> 200, error |-> "",
             body |-> [i \in 1..Len(result) |-> toDict(result[i])]]
    ELSE [status |-> 500, error |-> "Failed to process chat message",
          body |-> <<>>]

\* lines 94-112 and 189-190: what the node returns once llm.invoke has
\* settled, the final state of the messages channel, and the reply
WorkflowResponse(messages, outcome) ==
    LET returned ==
            Append(messages,
                   IF outcome.ok THEN AIMessage(outcome.text)
                   ELSE AIMessage(
                          "I encountered an error analyzing the network calls: "
                          \o outcome.text \o ". Please try again."))
        result == ChannelReducer(messages, returned)
    IN [status |-> 200, error |-> "",
        body |-> [i \in 1..Len(result) |-> toDict(result[i])]]

\* lines 157-184 and 59-92: the handler validates the body, builds the
\* workflow input and the node runs up to its await of llm.invoke
PostChat ==
    \E body \in ChatBodies :
        /\ agent.pc \in {"listening", "responded"}
        /\ agent' =
             IF body.message = ""
             THEN [AgentIdle EXCEPT
                      !.pc = "responded", !.body = body,
                      !.response = <<[status |-> 400,
                                      error |-> "Missing message in request",
                                      body |-> <<>>]>>]
             ELSE LET calls == IF body.networkCalls = <<>> THEN <<>>
                               ELSE body.networkCalls[1]
                  IN [AgentIdle EXCEPT
                         !.pc = "invoking", !.body = body,
                         !.messages = ChannelReducer(
                                         <<>>, <<HumanMessage(body.message)>>),
                         !.networkCalls = ChannelReducer(<<>>, calls),
                         !.summary = formatNetworkCalls(calls)]
        /\ UNCHANGED <<networkCallsByTab, isRecordingEnabled, storage,
                       pendingWrites, load, requests, toggles, observed, last,
                       panel>>

\* llm.invoke settles, the node returns and the handler answers
LlmSettled ==
    \E outcome \in LlmOutcomes :
        /\ agent.pc = "invoking"
        /\ agent' = [agent EXCEPT
                        !.pc = "responded",
                        !.llm = IF outcome.ok THEN "answered" ELSE "failed",
                        !.response =
                            <<WorkflowResponse(agent.messages, outcome)>>]
        /\ UNCHANGED <<networkCallsByTab, isRecordingEnabled, storage,
                       pendingWrites, load, requests, toggles, observed, last,
                       panel>>

NextAgent ==
    \/ PostChat
    \/ LlmSettled

SpecAgent == Init /\ [][NextAgent]_vars

(***************************************************************************)
(* The side panel's handleSubmit (extension/src/panel/index.tsx, lines     *)
(* 120-206): it asks the background for the calls, and from the callback    *)
(* on posts the completed ones, the most recent RecentCallsLimit of them,   *)
(* to POST /chat.  SpecPanel starts from a store a long-lived page has     *)
(* filled: up to MaxStored calls in one tab, some still pending.           *)
(***************************************************************************)
\* the largest number of calls the store holds when the panel submits
MaxStored == 104

\* which of the stored calls are still pending: none (0), or every k-th
PendingPatterns == {0, 1, 3, 50}

StoredCall(i, k) ==
    [request |-> NetworkRequest("https://a/x", "GET", RequestIdOf(i), 1000 + i),
     response |-> IF k # 0 /\ i % k = 0 THEN NullResponse
                  ELSE NetworkResponse(200, RequestIdOf(i), 2000 + i)]

InitPanel ==
    /\ \E n \in 0..MaxStored, k \in PendingPatterns :
          networkCallsByTab =
             IF n = 0 THEN EmptyStore
             ELSE (1 :> [i \in 1..n |-> StoredCall(i, k)])
    /\ isRecordingEnabled = TRUE
    /\ storage = <<>>
    /\ pendingWrites = <<>>
    /\ load = "done"
    /\ requests = [r \in RequestIds |-> [phase |-> "new", tabId |-> 0]]
    /\ observed = [t \in Tabs |-> StoredRequests(networkCallsByTab, t)]
    /\ toggles = NoToggles
    /\ last = NoEvent
    /\ panel = PanelClosed
    /\ agent = AgentIdle

\* latestNetworkCalls.filter(call => call.response !== null)
CompletedCalls(calls) ==
    SelectSeq(calls, LAMBDA call : call.response # NullResponse)

\* Array.prototype.slice(-n)
SliceLast(calls, n) ==
    IF Len(calls) <= n THEN calls
    ELSE SubSeq(calls, Len(calls) - n + 1, Len(calls))

\* PostedNetworkCalls with a bug: slice(0, 100), the oldest calls
PostedNetworkCalls_Oldest(latestNetworkCalls) ==
    LET completedCalls == CompletedCalls(latestNetworkCalls)
    IN SubSeq(completedCalls, 1,
              IF Len(completedCalls) <= RecentCallsLimit
              THEN Len(completedCalls) ELSE RecentCallsLimit)

\* lines 143-144: limitedCalls, the networkCalls of the request body
PostedNetworkCalls(latestNetworkCalls) ==
    SliceLast(CompletedCalls(latestNetworkCalls), RecentCallsLimit)

\* the most messages the panel shows when a submit starts
MaxShown == 1

\* the text the user submits; handleSubmit returns at once on a blank one
PanelInput == "which call failed?"

\* handleSubmit with a non-blank input, up to its first await (lines 120-131)
PanelSubmit ==
    /\ panel.pc = "idle"
    /\ Len(panel.messages) <= MaxShown
    /\ panel' = [panel EXCEPT
                    !.pc = "awaitingCalls", !.loading = TRUE,
                    !.messages = Append(@, [type |-> "human",
                                            content |-> PanelInput]),
                    !.posted = <<>>, !.posts = 0, !.chat = ""]
    /\ UNCHANGED <<agent, networkCallsByTab, isRecordingEnabled, storage,
                   pendingWrites, load, requests, toggles, observed, last>>

\* the background handles the GET_NETWORK_CALLS of the submit, the callback
\* of lines 133-138 runs and handleSubmit goes on to its fetch (lines 142-162)
PanelCallsReceived ==
    /\ panel.pc = "awaitingCalls"
    /\ LET response == GetNetworkCallsReply(networkCallsByTab)
       IN /\ last' = [Message("GET_NETWORK_CALLS") EXCEPT !.reply = response]
          /\ panel' = [panel EXCEPT
                          !.pc = "awaitingChat",
                          !.networkCalls = response,
                          !.posted = <<PostedNetworkCalls(response)>>,
                          !.posts = @ + 1]
    /\ UNCHANGED <<agent, networkCallsByTab, isRecordingEnabled, storage,
                   pendingWrites, load, requests, toggles, observed>>

\* how the fetch of lines 156-164 can end: fetch rejects (no backend
\* listening), response.json() rejects (the body is not JSON), the body is
\* the error object of an HTTP 400 or 500, or it is the array of stored
\* messages the backend answers with
ChatFailures == {"networkError", "unparsable", "errorObject"}

ChatEndings ==
    {[kind |-> k, data |-> <<>>] : k \in ChatFailures}
    \cup {[kind |-> "answered",
           data |-> WorkflowResponse(
                       ChannelReducer(<<>>, <<[type |-> "human",
                                               content |-> PanelInput]>>),
                       outcome).body] : outcome \in LlmOutcomes}

\* lines 169-183: a stored message becomes a message of its type, of type ai
\* when the type is not known
ParseStoredMessage(storedMessage) ==
    [type |-> IF storedMessage.type \in {"human", "ai", "system"}
              THEN storedMessage.type ELSE "ai",
     content |-> storedMessage.data.content]

\* lines 192-194: the ai and system messages of the reply
AiMessagesOf(data) ==
    SelectSeq([i \in 1..Len(data) |-> ParseStoredMessage(data[i])],
              LAMBDA msg : msg.type \in {"ai", "system"})

\* lines 163-203: the conversation after the fetch ended; the catch block
\* of lines 201-203 writes to the console only
ShownAfterChat(messages, ending) ==
    IF ending.kind \in ChatFailures THEN messages
    ELSE messages \o AiMessagesOf(ending.data)

\* the fetch settles either way and the finally block runs (lines 163-205)
PanelChatSettled ==
    \E ending \in ChatEndings :
        /\ panel.pc = "awaitingChat"
        /\ panel' = [panel EXCEPT
                        !.pc = "idle", !.loading = FALSE,
                        !.chat = ending.kind,
                        !.messages = ShownAfterChat(@, ending)]
        /\ UNCHANGED <<agent, networkCallsByTab, isRecordingEnabled, storage,
                       pendingWrites, load, requests, toggles, observed, last>>

NextPanel ==
    \/ PanelSubmit
    \/ PanelCallsReceived
    \/ PanelChatSettled

SpecPanel == InitPanel /\ [][NextPanel]_vars

(***************************************************************************)
(* The panel's recording switch (extension/src/panel/index.tsx): the mount  *)
(* effect asks the background for the calls and for the recording status    *)
(* (lines 77-87), and toggleRecording (lines 209-216) flips the state shown  *)
(* and sends TOGGLE_RECORDING without a callback.  The background handles   *)
(* the panel's messages in the order they were sent and the callbacks run   *)
(* in the order of the replies.                                             *)
(***************************************************************************)
\* the most messages of the panel waiting to be handled when the user toggles
MaxInFlight == 1

PanelMessage(type, enabled) == [type |-> type, enabled |-> enabled]

\* the mount effect: loadNetworkCalls() and the GET_RECORDING_STATUS request
PanelMount ==
    /\ ~panel.mounted
    /\ panel' = [panel EXCEPT
                    !.mounted = TRUE,
                    !.outbox = @ \o <<PanelMessage("GET_NETWORK_CALLS", <<>>),
                                      PanelMessage("GET_RECORDING_STATUS",
                                                   <<>>)>>]
    /\ UNCHANGED <<agent, networkCallsByTab, isRecordingEnabled, storage,
                   pendingWrites, load, requests, toggles, observed, last>>

\* toggleRecording: the user flips the switch
PanelToggleRecording ==
    /\ panel.mounted
    /\ Len(panel.outbox) <= MaxInFlight
    /\ LET newRecordingState == ~panel.isRecording
       IN panel' = [panel EXCEPT
                       !.isRecording = newRecordingState,
                       !.outbox = Append(@, PanelMessage("TOGGLE_RECORDING",
                                                <<newRecordingState>>))]
    /\ UNCHANGED <<agent, networkCallsByTab, isRecordingEnabled, storage,
                   pendingWrites, load, requests, toggles, observed, last>>

\* the background handles the panel's GET_NETWORK_CALLS (lines 211-234)
DeliverGetNetworkCalls ==
    /\ panel.outbox # <<>>
    /\ Head(panel.outbox).type = "GET_NETWORK_CALLS"
    /\ last' = [Message("GET_NETWORK_CALLS") EXCEPT
                  !.reply = GetNetworkCallsReply(networkCallsByTab)]
    /\ panel' = [panel EXCEPT
                    !.outbox = Tail(@),
                    !.inbox = Append(@, [type |-> "GET_NETWORK_CALLS",
                                         reply |-> last'.reply])]
    /\ UNCHANGED <<agent, networkCallsByTab, isRecordingEnabled, storage,
                   pendingWrites, load, requests, toggles, observed>>

\* the background handles the panel's GET_RECORDING_STATUS (lines 270-274)
DeliverGetRecordingStatus ==
    /\ panel.outbox # <<>>
    /\ Head(panel.outbox).type = "GET_RECORDING_STATUS"
    /\ last' = [Message("GET_RECORDING_STATUS") EXCEPT
                  !.reply = <<[success |-> TRUE,
                               enabled |-> isRecordingEnabled]>>]
    /\ panel' = [panel EXCEPT
                    !.outbox = Tail(@),
                    !.inbox = Append(@, [type |-> "GET_RECORDING_STATUS",
                                         reply |-> last'.reply])]
    /\ UNCHANGED <<agent, networkCallsByTab, isRecordingEnabled, storage,
                   pendingWrites, load, requests, toggles, observed>>

\* the background handles the panel's TOGGLE_RECORDING (lines 251-267); the
\* panel gave no callback, the reply goes nowhere
DeliverToggleRecording ==
    /\ panel.outbox # <<>>
    /\ Head(panel.outbox).type = "TOGGLE_RECORDING"
    /\ Len(pendingWrites) < MaxPendingWrites
    /\ LET enabled == Head(panel.outbox).enabled
       IN /\ isRecordingEnabled' = ToggledFlag(enabled, isRecordingEnabled)
          /\ pendingWrites' =
                ToggledWrites(enabled, isRecordingEnabled, pendingWrites)
          /\ toggles' = [lastValue |-> enabled, cleanStart |-> FALSE]
          /\ last' = [Message("TOGGLE_RECORDING") EXCEPT
                        !.enabled = enabled,
                        !.reply = <<[success |-> TRUE,
                                     enabled |-> isRecordingEnabled']>>]
    /\ panel' = [panel EXCEPT !.outbox = Tail(@)]
    /\ UNCHANGED <<agent, networkCallsByTab, storage, load, requests,
                   observed>>

\* lines 82-84: the state shown after the status reply; sendResponse's
\* argument is <<>> when there was none
RecordingShown(isRecording, response) ==
    IF response # <<>> /\ "enabled" \in DOMAIN response[1]
    THEN response[1].enabled ELSE isRecording

\* the callback of the mount effect's GET_RECORDING_STATUS (lines 81-85)
PanelRecordingStatusReply ==
    /\ panel.inbox # <<>>
    /\ Head(panel.inbox).type = "GET_RECORDING_STATUS"
    /\ panel' = [panel EXCEPT
                    !.inbox = Tail(@),
                    !.isRecording =
                        RecordingShown(@, Head(panel.inbox).reply)]
    /\ UNCHANGED <<agent, networkCallsByTab, isRecordingEnabled, storage,
                   pendingWrites, load, requests, toggles, observed, last>>

\* the callback of loadNetworkCalls (lines 112-116)
PanelNetworkCallsReply ==
    /\ panel.inbox # <<>>
    /\ Head(panel.inbox).type = "GET_NETWORK_CALLS"
    /\ panel' = [panel EXCEPT
                    !.inbox = Tail(@),
                    !.networkCalls = Head(panel.inbox).reply]
    /\ UNCHANGED <<agent, networkCallsByTab, isRecordingEnabled, storage,
                   pendingWrites, load, requests, toggles, observed, last>>

NextRecording ==
    \/ StorageGetCallback
    \/ StorageSetCompleted
    \/ PanelMount
    \/ PanelToggleRecording
    \/ DeliverGetNetworkCalls
    \/ DeliverGetRecordingStatus
    \/ DeliverToggleRecording
    \/ PanelRecordingStatusReply
    \/ PanelNetworkCallsReply

SpecRecording == Init /\ [][NextRecording]_vars

(***************************************************************************)
(* Properties.                                                             *)
(***************************************************************************)
StoredLength(byTab, t) == IF t \in DOMAIN byTab THEN Len(byTab[t]) ELSE 0

\* every entry a step adds to the store has a null response
NewEntriesPending ==
    \A t \in DOMAIN networkCallsByTab' :
        \A i \in (StoredLength(networkCallsByTab, t) + 1)
                    ..Len(networkCallsByTab'[t]) :
            networkCallsByTab'[t][i].response = NullResponse

\* the tab holds a call with that request id
Stored(byTab, t, r) ==
    /\ t \in DOMAIN byTab
    /\ \E i \in 1..Len(byTab[t]) : byTab[t][i].request.requestId = r

C3_UnmatchedCompletionIsNoOp ==
    [][(/\ last'.kind = "completed"
        /\ \/ networkCallsByTab' # networkCallsByTab
           \/ isRecordingEnabled' # isRecordingEnabled)
         => \A ty \in ResourceTypes, t \in Tabs, r \in RequestIds,
               sc \in StatusCodes, ts \in Timestamps :
               OnCompleted(ty, t, r, sc, ts)
                  => Stored(networkCallsByTab, t, r)]_vars

\* C3 witness: a qualifying completion was handled with recording on and
\* found no call to attach to
C3_Witness == last.kind = "completed" /\ last.outcome = "nomatch"

\* C6: after CLEAR_NETWORK_CALLS or an active-tab change every tab's sequence
\* is empty, and the GET_NETWORK_CALLS reply built from that store is empty.
C6_ClearEmptiesEveryTab ==
    /\ last.kind \in {"CLEAR_NETWORK_CALLS", "tabActivated"} =>
          /\ \A t \in DOMAIN networkCallsByTab : networkCallsByTab[t] = <<>>
          /\ GetNetworkCallsReply(networkCallsByTab) = <<>>

\* C6 witness: an active-tab change has just emptied two tabs that held calls
C6_Witness ==
    /\ last.kind = "tabActivated"
    /\ last.outcome = "clearedMany"
    /\ Cardinality(DOMAIN networkCallsByTab) = 2

\* C7: a tab-removed event for T leaves T without a key, and the first
\* qualifying start for a tab without a key (T after its removal) leaves it
\* with exactly the new call.
C7_RemovalDeletesKey ==
    [][/\ last'.kind = "tabRemoved" =>
             \A t \in Tabs :
                OnTabRemoved(t) => t \notin DOMAIN networkCallsByTab'
       /\ (last'.kind = "start" /\ isRecordingEnabled) =>
             \A ty \in {"xmlhttprequest", "fetch"},
                t \in Tabs \ DOMAIN networkCallsByTab,
                r \in RequestIds, u \in Urls, m \in Methods,
                ts \in Timestamps :
                OnBeforeRequest(ty, t, r, u, m, ts)
                   => /\ t \in DOMAIN networkCallsByTab'
                      /\ networkCallsByTab'[t] =
                           <<[request |-> [url |-> u, method |-> m,
                                           timestamp |-> ts, requestId |-> r],
                              response |-> NullResponse]>>]_vars

\* C7 witness: a start has just been stored for the tab whose key the event
\* before it removed
C7_Witness ==
    /\ last.kind = "start"
    /\ last.outcome = "storedAfterRemoval"
    /\ \E t \in DOMAIN networkCallsByTab : Len(networkCallsByTab[t]) = 1

\* C10: whatever the resource type, the recording flag and the store, the
\* request-start listener returns cancel = false.
C10_StartNeverCancels == last.kind = "start" => last.cancel = FALSE

\* C10 witness: a start was handled while recording was off
C10_Witness ==
    /\ last.kind = "start"
    /\ last.outcome = "disabled"
    /\ last.cancel = FALSE

\* the request whose completion this step delivers (SpecChrome)
Completes(r) == requests[r].phase = "started" /\ requests'[r].phase = "done"

SameLengths ==
    /\ DOMAIN networkCallsByTab' = DOMAIN networkCallsByTab
    /\ \A t \in DOMAIN networkCallsByTab :
          Len(networkCallsByTab'[t]) = Len(networkCallsByTab[t])

\* the records a step changed, as <<tab, index>>
ChangedRecords ==
    {p \in UNION {{<<t, i>> : i \in 1..Len(networkCallsByTab[t])} :
                     t \in DOMAIN networkCallsByTab} :
        networkCallsByTab'[p[1]][p[2]] # networkCallsByTab[p[1]][p[2]]}

\* exactly one record changed; it is a call of tab t with request id r, and
\* only its response changed, to a response
ExactlyOneResponseSet(t, r) ==
    /\ Cardinality(ChangedRecords) = 1
    /\ \A p \in ChangedRecords :
          /\ p[1] = t
          /\ networkCallsByTab[t][p[2]].request.requestId = r
          /\ networkCallsByTab'[t][p[2]].request
                = networkCallsByTab[t][p[2]].request
          /\ networkCallsByTab'[t][p[2]].response # NullResponse

C4_ResponseSetAtMostOnce ==
    [][/\ NewEntriesPending
       /\ \A t \in DOMAIN networkCallsByTab \cap DOMAIN networkCallsByTab' :
             \A i \in 1..Len(networkCallsByTab[t]) :
                (/\ i <= Len(networkCallsByTab'[t])
                 /\ networkCallsByTab[t][i].response # NullResponse)
                   => networkCallsByTab'[t][i].response
                         = networkCallsByTab[t][i].response]_vars

\* C4 witness: a second completion was handled in a tab that already held a
\* completed call, and both calls now have their own response
C4_Witness ==
    /\ last.kind = "completed"
    /\ last.outcome = "attached"
    /\ \E t \in DOMAIN networkCallsByTab :
          /\ Len(networkCallsByTab[t]) = 2
          /\ \A i \in 1..2 :
                /\ networkCallsByTab[t][i].response # NullResponse
                /\ networkCallsByTab[t][i].response.requestId
                      = networkCallsByTab[t][i].request.requestId
          /\ networkCallsByTab[t][1].request.requestId
                # networkCallsByTab[t][2].request.requestId

\* C5 as stated: once a TOGGLE_RECORDING has turned recording off, and until
\* one turns it on again, no start or completion event changes the store.
C5_Original ==
    [][(/\ toggles.lastValue = <<FALSE>>
        /\ toggles'.lastValue = <<FALSE>>
        /\ last'.kind \in {"start", "completed"})
         => networkCallsByTab' = networkCallsByTab]_vars

\* C8 as stated: no start or completion event is handled with the flag at
\* its default true, the startup load still outstanding, while durable
\* storage holds false.
C8_Original ==
    (/\ last.kind \in {"start", "completed"}
     /\ load = "issued"
     /\ toggles.cleanStart)
       => storage # <<FALSE>>

\* C9: in a background context that started with no write in flight and has
\* handled no toggle itself, once the startup load callback has run the flag
\* equals the value of the latest toggle, which is the value in storage, and
\* is true when nothing was ever stored.
C9_ToggleSurvivesRestart ==
    (load = "done" /\ toggles.cleanStart)
       => /\ storage = toggles.lastValue
          /\ isRecordingEnabled
                = (IF storage = <<>> THEN TRUE ELSE storage[1])

\* C9 witness: recording was toggled off, the context restarted, and the
\* load callback has just run
C9_Witness ==
    /\ last.kind = "loaded"
    /\ load = "done"
    /\ toggles.cleanStart
    /\ toggles.lastValue = <<FALSE>>
    /\ isRecordingEnabled = FALSE

\* a step of the handler of that kind of event; completed storage writes keep
\* the record of the last event and shorten the queue of writes
StepOf(kind) ==
    /\ last'.kind = kind
    /\ Len(pendingWrites') >= Len(pendingWrites)

\* the serialized calls of the tabs in that order, one tab after the other
RECURSIVE ConcatTabs(_, _)
ConcatTabs(byTab, order) ==
    IF order = <<>> THEN <<>>
    ELSE [i \in 1..Len(byTab[Head(order)]) |->
             SerializeCall(byTab[Head(order)][i])]
         \o ConcatTabs(byTab, Tail(order))

\* the orders in which the keys of the store can be listed
KeyOrders(byTab) ==
    {o \in UNION {[1..n -> DOMAIN byTab] : n \in {Cardinality(DOMAIN byTab)}} :
        \A i, j \in DOMAIN o : i # j => o[i] # o[j]}

\* C11: the GET_NETWORK_CALLS reply is the concatenation of the tabs'
\* sequences: as many entries as the store holds calls, pending ones
\* included, each tab's calls together and in stored order; and handling the
\* message leaves the store as it was.
C11_ReplyIsConcatenation ==
    /\ [](last.kind = "GET_NETWORK_CALLS" =>
            /\ Len(last.reply) = TotalCalls(networkCallsByTab)
            /\ \E o \in KeyOrders(networkCallsByTab) :
                  last.reply = ConcatTabs(networkCallsByTab, o))
    /\ [][StepOf("GET_NETWORK_CALLS")
            => networkCallsByTab' = networkCallsByTab]_vars

\* C11 witness: the reply holds the calls of two tabs, one of them pending
C11_Witness ==
    /\ last.kind = "GET_NETWORK_CALLS"
    /\ Len(last.reply) = 2
    /\ Cardinality(DOMAIN networkCallsByTab) = 2
    /\ \A t \in DOMAIN networkCallsByTab : Len(networkCallsByTab[t]) = 1
    /\ last.reply[1].response = NullResponse
    /\ last.reply[2].response # NullResponse

\* C13: a TOGGLE_RECORDING that supplies b leaves the in-memory flag equal to
\* b, and the reply of every TOGGLE_RECORDING is {success: true, enabled: the
\* flag after the handler}.
C13_ToggleSetsAndReportsFlag ==
    last.kind = "TOGGLE_RECORDING" =>
        /\ last.enabled # <<>> => isRecordingEnabled = last.enabled[1]
        /\ last.replied
        /\ last.reply = <<[success |-> TRUE, enabled |-> isRecordingEnabled]>>

\* C13 witness: recording was switched off by a message supplying false
C13_Witness ==
    /\ last.kind = "TOGGLE_RECORDING"
    /\ last.enabled = <<FALSE>>
    /\ isRecordingEnabled = FALSE
    /\ last.reply = <<[success |-> TRUE, enabled |-> FALSE]>>

\* C14 as stated: every TOGGLE_RECORDING handled issues a storage write of
\* the resulting flag, and no other handler issues one.
C14_Original ==
    [][/\ StepOf("TOGGLE_RECORDING")
            => pendingWrites' = Append(pendingWrites, isRecordingEnabled')
       /\ Len(pendingWrites') > Len(pendingWrites)
            => last'.kind = "TOGGLE_RECORDING"]_vars

\* C14 amended: every TOGGLE_RECORDING that carries an enabled field issues a
\* storage write of the resulting flag, one without the field issues none,
\* and no other handler issues one.
C14_ToggleWithFieldWrites ==
    [][/\ (StepOf("TOGGLE_RECORDING") /\ last'.enabled # <<>>)
            => pendingWrites' = Append(pendingWrites, isRecordingEnabled')
       /\ (StepOf("TOGGLE_RECORDING") /\ last'.enabled = <<>>)
            => pendingWrites' = pendingWrites
       /\ Len(pendingWrites') > Len(pendingWrites)
            => /\ last'.kind = "TOGGLE_RECORDING"
               /\ last'.enabled # <<>>]_vars

\* C14 witness: a toggle that supplied the value the flag already had has its
\* write in flight
C14_Witness ==
    /\ last.kind = "TOGGLE_RECORDING"
    /\ last.enabled = <<TRUE>>
    /\ pendingWrites = <<TRUE>>
    /\ storage = <<TRUE>>

\* C15: GET_RECORDING_STATUS changes neither the store, nor the in-memory
\* flag, nor durable storage or the writes on their way to it, and replies
\* {success: true, enabled: the in-memory flag}.
C15_StatusIsReadOnly ==
    /\ [](last.kind = "GET_RECORDING_STATUS" =>
            /\ last.replied
            /\ last.reply
                  = <<[success |-> TRUE, enabled |-> isRecordingEnabled]>>)
    /\ [][StepOf("GET_RECORDING_STATUS") =>
            UNCHANGED <<networkCallsByTab, isRecordingEnabled, storage,
                        pendingWrites>>]_vars

\* C15 witness: the status was asked while the flag differed from the value
\* in durable storage
C15_Witness ==
    /\ last.kind = "GET_RECORDING_STATUS"
    /\ storage = <<TRUE>>
    /\ isRecordingEnabled = FALSE
    /\ last.reply = <<[success |-> TRUE, enabled |-> FALSE]>>

\* C17: when the try block of GET_NETWORK_CALLS throws, the caller is still
\* replied to, with the empty sequence; the store, the flag and durable
\* storage are as before; and the messages and network events handled
\* afterwards are handled as ever (a later GET_NETWORK_CALLS whose try block
\* completes replies with every stored call).
C17_FailureRepliesEmpty ==
    /\ [](last.kind = "GET_NETWORK_CALLS" =>
            /\ last.replied
            /\ last.outcome = "failed" => last.reply = <<>>
            /\ last.outcome # "failed" =>
                  \E o \in KeyOrders(networkCallsByTab) :
                     last.reply = ConcatTabs(networkCallsByTab, o))
    /\ [][(StepOf("GET_NETWORK_CALLS") /\ last'.outcome = "failed") =>
            UNCHANGED <<networkCallsByTab, isRecordingEnabled, storage,
                        pendingWrites, load, requests>>]_vars

\* C17 witness: the try block threw while the store held calls, and the
\* caller got the empty sequence
C17_Witness ==
    /\ last.kind = "GET_NETWORK_CALLS"
    /\ last.outcome = "failed"
    /\ last.replied
    /\ last.reply = <<>>
    /\ TotalCalls(networkCallsByTab) = 2

\* C18 as stated: however many qualifying starts are observed without a tab
\* switch, clear or tab close, no tab holds more records than the limit.
C18_Original ==
    \A t \in DOMAIN networkCallsByTab :
        Len(networkCallsByTab[t]) <= RecentCallsLimit

\* the tabs other than t have the keys and the sequences they had
OthersUntouched(t) ==
    \A u \in Tabs \ {t} :
        /\ u \in DOMAIN networkCallsByTab' <=> u \in DOMAIN networkCallsByTab
        /\ u \in DOMAIN networkCallsByTab =>
              networkCallsByTab'[u] = networkCallsByTab[u]

\* C19: a request-start, completion or tab-removed event for tab T leaves the
\* key and the sequence of every other tab as they were.
C19_PerTabIsolation ==
    [][/\ (last'.kind = "start" /\ networkCallsByTab' # networkCallsByTab) =>
            \A ty \in ResourceTypes, t \in Tabs, r \in RequestIds,
               u \in Urls, m \in Methods, ts \in Timestamps :
               OnBeforeRequest(ty, t, r, u, m, ts) => OthersUntouched(t)
       /\ (last'.kind = "completed"
              /\ networkCallsByTab' # networkCallsByTab) =>
            \A ty \in ResourceTypes, t \in Tabs, r \in RequestIds,
               sc \in StatusCodes, ts \in Timestamps :
               OnCompleted(ty, t, r, sc, ts) => OthersUntouched(t)
       /\ (last'.kind = "tabRemoved"
              /\ networkCallsByTab' # networkCallsByTab) =>
            \A t \in Tabs : OnTabRemoved(t) => OthersUntouched(t)]_vars

\* C19 witness: a completion was attached in one tab while the other tab
\* holds a call with the same request id that is still pending
C19_Witness ==
    /\ last.kind = "completed"
    /\ last.outcome = "attached"
    /\ DOMAIN networkCallsByTab = Tabs
    /\ \A t \in Tabs : Len(networkCallsByTab[t]) = 1
    /\ networkCallsByTab[1][1].request.requestId
          = networkCallsByTab[2][1].request.requestId
    /\ networkCallsByTab[1][1].response = NullResponse
    /\ networkCallsByTab[2][1].response # NullResponse

\* the qualifying starts observed, tab after tab in ascending tab id
ObservedInTabOrder ==
    LET RECURSIVE UpTo(_)
        UpTo(n) == IF n = 0 THEN <<>>
                   ELSE UpTo(n - 1) \o (IF n \in Tabs THEN observed[n] ELSE <<>>)
    IN UpTo(CHOOSE n \in Tabs : \A t \in Tabs : t <= n)

\* C20: a tab's calls are stored, and replied by GET_NETWORK_CALLS, in the
\* order their starts were observed, and a completion moves no call.
C20_OrderIsObservationOrder ==
    /\ [](\A t \in Tabs :
            \A i \in 1..StoredLength(networkCallsByTab, t) :
               /\ i <= Len(observed[t])
               /\ networkCallsByTab[t][i].request = observed[t][i])
    /\ [](last.kind = "GET_NETWORK_CALLS" =>
            [i \in 1..Len(last.reply) |->
                [url |-> last.reply[i].request.url,
                 method |-> last.reply[i].request.method,
                 timestamp |-> last.reply[i].request.timestamp,
                 requestId |-> last.reply[i].request.requestId]]
              = ObservedInTabOrder)
    /\ [][last'.kind = "completed" =>
            \A t \in Tabs : StoredRequests(networkCallsByTab', t)
                               = StoredRequests(networkCallsByTab, t)]_vars

\* C20 witness: GET_NETWORK_CALLS replied while the later of a tab's two
\* calls had its response and the earlier one was still waiting
C20_Witness ==
    /\ last.kind = "GET_NETWORK_CALLS"
    /\ Len(last.reply) = 2
    /\ \E t \in DOMAIN networkCallsByTab :
          /\ Len(networkCallsByTab[t]) = 2
          /\ networkCallsByTab[t][1].response = NullResponse
          /\ networkCallsByTab[t][2].response # NullResponse
          /\ networkCallsByTab[t][1].request.requestId
                # networkCallsByTab[t][2].request.requestId

\* the calls of a reply that have a response, in the reply's order
RECURSIVE WithResponse(_)
WithResponse(calls) ==
    IF Len(calls) = 0 THEN <<>>
    ELSE IF Len(calls) = 1
         THEN (IF calls[1].response = NullResponse THEN <<>> ELSE calls)
    ELSE LET half == Len(calls) \div 2
         IN WithResponse(SubSeq(calls, 1, half))
               \o WithResponse(SubSeq(calls, half + 1, Len(calls)))

\* C16: the networkCalls the panel posts to POST /chat are calls with a
\* response only, at most 100 of them, and they are the last ones of the
\* completed calls of the GET_NETWORK_CALLS reply, in the reply's order: all
\* of them when there are at most 100, the last 100 otherwise.
C16_PostsLastCompletedCalls ==
    panel.posted # <<>> =>
        LET posted == panel.posted[1]
            completed == WithResponse(panel.networkCalls)
            dropped == Len(completed) - Len(posted)
        IN /\ \A i \in 1..Len(posted) : posted[i].response # NullResponse
           /\ Len(posted) <= 100
           /\ Len(posted) = IF Len(completed) > 100 THEN 100
                            ELSE Len(completed)
           /\ \A i \in 1..Len(posted) : posted[i] = completed[dropped + i]

\* C16 witness: the reply held more than 100 completed calls and pending
\* ones among them, and 100 calls were posted
C16_Witness ==
    /\ panel.pc = "awaitingChat"
    /\ panel.posted # <<>>
    /\ Len(panel.posted[1]) = 100
    /\ Len(WithResponse(panel.networkCalls)) > 100
    /\ Len(WithResponse(panel.networkCalls)) < Len(panel.networkCalls)

\* the records a step gave a response they did not have, as <<tab, index>>
NewlyCompleted ==
    {p \in UNION {{<<t, i>> : i \in 1..Len(networkCallsByTab[t])} :
                     t \in DOMAIN networkCallsByTab} :
        /\ p[1] \in DOMAIN networkCallsByTab'
        /\ p[2] <= Len(networkCallsByTab'[p[1]])
        /\ networkCallsByTab[p[1]][p[2]].response = NullResponse
        /\ networkCallsByTab'[p[1]][p[2]].response # NullResponse}

\* C25: a completion whose resource type is neither xmlhttprequest nor fetch
\* leaves the store as it was, whatever its tab and request id match.
C25_OtherTypesNeverAttach ==
    [][(last'.kind = "completed"
          /\ networkCallsByTab' # networkCallsByTab) =>
         \A ty \in ResourceTypes, t \in Tabs, r \in RequestIds,
            sc \in StatusCodes, ts \in Timestamps :
            OnCompleted(ty, t, r, sc, ts)
               => ty \in {"xmlhttprequest", "fetch"}]_vars

\* C25 witness: a completion of another resource type was handled while the
\* store held a pending call, and the call is still pending
C25_Witness ==
    /\ last.kind = "completed"
    /\ last.outcome = "filtered"
    /\ isRecordingEnabled
    /\ Cardinality(DOMAIN networkCallsByTab) = 2
    /\ \A t \in DOMAIN networkCallsByTab :
          /\ Len(networkCallsByTab[t]) = 1
          /\ networkCallsByTab[t][1].response = NullResponse

\* C26: a completion with tab T and request id r changes records of T's
\* sequence with request id r only; a record with id r under another tab
\* keeps its response.
C26_CorrelatedWithinItsTab ==
    [][(last'.kind = "completed"
          /\ networkCallsByTab' # networkCallsByTab) =>
         \A ty \in ResourceTypes, t \in Tabs, r \in RequestIds,
            sc \in StatusCodes, ts \in Timestamps :
            OnCompleted(ty, t, r, sc, ts) =>
               /\ SameLengths
               /\ \A p \in ChangedRecords :
                     /\ p[1] = t
                     /\ networkCallsByTab[t][p[2]].request.requestId = r
               /\ \A u \in DOMAIN networkCallsByTab \ {t} :
                     \A i \in 1..Len(networkCallsByTab[u]) :
                        networkCallsByTab'[u][i].response
                           = networkCallsByTab[u][i].response]_vars

\* C26 witness: both tabs hold a call with the same request id; the
\* completion reported for the first tab was attached there and the call of
\* the second tab is still pending
C26_Witness ==
    /\ last.kind = "completed"
    /\ last.outcome = "attached"
    /\ DOMAIN networkCallsByTab = Tabs
    /\ \A t \in Tabs : Len(networkCallsByTab[t]) = 1
    /\ networkCallsByTab[1][1].request.requestId
          = networkCallsByTab[2][1].request.requestId
    /\ networkCallsByTab[1][1].response # NullResponse
    /\ networkCallsByTab[2][1].response = NullResponse

\* C27: a stored call gets a response only in a step of the completion
\* listener that handles a completion of type xmlhttprequest or fetch, for
\* the call's tab and request id, while the recording flag is true; in every
\* other step a call that stays in the store and is pending stays pending.
C27_ResponseOnlyFromCompletion ==
    [][(networkCallsByTab' # networkCallsByTab /\ NewlyCompleted # {}) =>
         /\ last'.kind = "completed"
         /\ isRecordingEnabled
         /\ \A ty \in ResourceTypes, t \in Tabs, r \in RequestIds,
               sc \in StatusCodes, ts \in Timestamps :
               OnCompleted(ty, t, r, sc, ts) =>
                  /\ ty \in {"xmlhttprequest", "fetch"}
                  /\ \A p \in NewlyCompleted :
                        /\ p[1] = t
                        /\ networkCallsByTab[t][p[2]].request.requestId = r]_vars

\* C27 witness: a completion was handled while recording was off and the
\* call it belongs to is still pending
C27_Witness ==
    /\ last.kind = "completed"
    /\ last.outcome = "disabled"
    /\ ~isRecordingEnabled
    /\ TotalCalls(networkCallsByTab) = 1
    /\ \A t \in DOMAIN networkCallsByTab :
          \A i \in 1..Len(networkCallsByTab[t]) :
             networkCallsByTab[t][i].response = NullResponse

\* C29: the completion listener never creates a tab key: a step of it leaves
\* the key set as it was, also when the completion's tab has no key.
C29_CompletionCreatesNoKey ==
    [][last'.kind = "completed" =>
         DOMAIN networkCallsByTab' = DOMAIN networkCallsByTab]_vars

\* C29 witness: a qualifying completion was handled with recording on while
\* the store had no key at all, and it still has none
C29_Witness ==
    /\ last.kind = "completed"
    /\ last.outcome = "nomatch"
    /\ isRecordingEnabled
    /\ DOMAIN networkCallsByTab = {}

\* C30: within one run of the background context, CLEAR_NETWORK_CALLS and an
\* active-tab change keep the key set and leave every key with an empty
\* sequence; the key set loses a key only in a tab-removed step, and then
\* only the key of the removed tab.
C30_ClearKeepsKeys ==
    [][/\ last'.kind \in {"CLEAR_NETWORK_CALLS", "tabActivated"} =>
             /\ DOMAIN networkCallsByTab' = DOMAIN networkCallsByTab
             /\ \A t \in DOMAIN networkCallsByTab' :
                   networkCallsByTab'[t] = <<>>
       /\ (last'.kind # "restart"
             /\ ~(DOMAIN networkCallsByTab
                     \subseteq DOMAIN networkCallsByTab')) =>
             /\ last'.kind = "tabRemoved"
             /\ \A t \in Tabs :
                   OnTabRemoved(t) =>
                      DOMAIN networkCallsByTab'
                         = DOMAIN networkCallsByTab \ {t}]_vars

\* C30 witness: CLEAR_NETWORK_CALLS has emptied two tabs that held calls and
\* both keys are still there
C30_Witness ==
    /\ last.kind = "CLEAR_NETWORK_CALLS"
    /\ last.outcome = "clearedMany"
    /\ DOMAIN networkCallsByTab = Tabs
    /\ \A t \in Tabs : networkCallsByTab[t] = <<>>

ControlMessages ==
    {"GET_NETWORK_CALLS", "CLEAR_NETWORK_CALLS", "TOGGLE_RECORDING",
     "GET_RECORDING_STATUS"}

StoredCalls == FlattenTabs(networkCallsByTab, DOMAIN networkCallsByTab)

\* the parsed record has the fields and they equal those of the stored call
SameRequest(parsed, req) ==
    /\ {"url", "method", "timestamp", "requestId"} \subseteq DOMAIN parsed
    /\ parsed.url = req.url
    /\ parsed.method = req.method
    /\ parsed.timestamp = req.timestamp
    /\ parsed.requestId = req.requestId

SameResponse(parsed, res) ==
    IF res = NullResponse THEN parsed = NullResponse
    ELSE /\ parsed # NullResponse
         /\ {"status", "timestamp", "requestId"} \subseteq DOMAIN parsed
         /\ parsed.status = res.status
         /\ parsed.timestamp = res.timestamp
         /\ parsed.requestId = res.requestId

\* C21: the reply of GET_NETWORK_CALLS, the stored calls serialized with the
\* replacer and parsed again, has for every stored call a record with the
\* same url, method, request timestamp and request id and, when the call has
\* a response, the same status, response timestamp and response request id;
\* a null response stays null.
C21_SerializeRoundTrip ==
    (last.kind = "GET_NETWORK_CALLS" /\ last.outcome # "failed") =>
       /\ Len(last.reply) = Len(StoredCalls)
       /\ \A i \in 1..Len(StoredCalls) :
             /\ SameRequest(last.reply[i].request, StoredCalls[i].request)
             /\ SameResponse(last.reply[i].response, StoredCalls[i].response)

\* C21 witness: the reply holds a completed call and a pending one, whose
\* request and response timestamps all differ
C21_Witness ==
    /\ last.kind = "GET_NETWORK_CALLS"
    /\ Len(last.reply) = 4
    /\ last.reply[3].response = NullResponse
    /\ last.reply[4].response # NullResponse
    /\ last.reply[4].response.timestamp = 2004
    /\ last.reply[4].request.timestamp = 1004
    /\ last.reply[4].response.requestId = "r4"

\* C22: when llm.invoke fails while the backend handles a POST /chat that
\* carries a message, the reply has status 200 and its body is the message
\* sequence ending in an ai message that describes the error.
C22_LlmFailureStillAnswers ==
    (agent.pc = "responded" /\ agent.llm = "failed") =>
       LET response == agent.response[1]
           body == response.body
       IN /\ response.status = 200
          /\ Len(body) >= 2
          /\ \A i \in 1..(Len(body) - 1) :
                body[i] = toDict(HumanMessage(agent.body.message))
          /\ body[Len(body)].type = "ai"
          /\ \E outcome \in LlmOutcomes :
                /\ ~outcome.ok
                /\ body[Len(body)].data.content
                      = "I encountered an error analyzing the network calls: "
                        \o outcome.text \o ". Please try again."

\* C22 witness: a request with a message and a full list of calls was
\* answered after the model invocation failed
C22_Witness ==
    /\ agent.pc = "responded"
    /\ agent.llm = "failed"
    /\ agent.body.message # ""
    /\ Len(agent.networkCalls) = MaxPosted
    /\ agent.response[1].status = 200

\* the posted call a summary entry shows, found by its url
ShownCall(entry) ==
    CHOOSE j \in 1..Len(agent.networkCalls) :
        agent.networkCalls[j].request.url = entry.url

\* C23: the summary of the prompt has min(30, n) entries for n posted calls,
\* numbered from 1, each showing a different posted call, in the order of
\* descending request timestamp (a missing timestamp counting as 0), and no
\* call left out is more recent than a call shown.
C23_SummaryMostRecentFirst ==
    agent.pc \in {"invoking", "responded"} /\ agent.body.message # "" =>
       LET calls == agent.networkCalls
           summary == agent.summary
           n == Len(calls)
           shown == {ShownCall(summary[k]) : k \in 1..Len(summary)}
       IN /\ Len(summary) = IF n <= SummaryLimit THEN n ELSE SummaryLimit
          /\ \A k \in 1..Len(summary) :
                /\ summary[k].index = k
                /\ \E j \in 1..n : summary[k].url = calls[j].request.url
                /\ summary[k].time =
                      IF RequestTime(calls[ShownCall(summary[k])]) = 0
                      THEN <<"unknown time">>
                      ELSE <<"ISO", RequestTime(calls[ShownCall(summary[k])])>>
          /\ Cardinality(shown) = Len(summary)
          /\ \A k \in 1..(Len(summary) - 1) :
                RequestTime(calls[ShownCall(summary[k])])
                   >= RequestTime(calls[ShownCall(summary[k + 1])])
          /\ \A j \in (1..n) \ shown : \A i \in shown :
                RequestTime(calls[j]) <= RequestTime(calls[i])

\* C23 witness: more than 30 calls were posted with rising timestamps, and
\* the summary starts with the last of them
C23_Witness ==
    /\ agent.pc = "invoking"
    /\ Len(agent.networkCalls) = MaxPosted
    /\ Len(agent.summary) = SummaryLimit
    /\ agent.summary[1].url = agent.networkCalls[MaxPosted].request.url
    /\ agent.summary[1].time = <<"ISO", 1000 + MaxPosted>>

\* C24: when the fetch of /chat fails, the conversation the panel shows ends
\* with something other than the user's own message (a failure notice), and
\* the submit has sent one POST /chat at most.
C24_Original ==
    (panel.pc = "idle" /\ panel.chat \in ChatFailures) =>
       /\ panel.posts <= 1
       /\ panel.messages # <<>>
       /\ panel.messages[Len(panel.messages)].type # "human"

\* the value durable storage holds for the flag, true when nothing was stored
PersistedFlag == IF storage = <<>> THEN TRUE ELSE storage[1]

\* C31: whenever the startup load callback has run and no storage write is
\* pending, the in-memory recording flag equals the value in durable storage
\* (true when nothing was ever stored).
C31_Original ==
    (load = "done" /\ pendingWrites = <<>>) =>
       isRecordingEnabled = PersistedFlag

\* C32: when several calls of one tab share a request id, a completion for
\* that id changes the earliest of them only: every record a completion step
\* changes has the completion's id and no record before it in its tab has.
C32_EarliestMatchOnly ==
    [][(last'.kind = "completed"
          /\ networkCallsByTab' # networkCallsByTab) =>
         \A ty \in ResourceTypes, t \in Tabs, r \in RequestIds,
            sc \in StatusCodes, ts \in Timestamps :
            OnCompleted(ty, t, r, sc, ts) =>
               /\ SameLengths
               /\ Cardinality(ChangedRecords) = 1
               /\ \A p \in ChangedRecords :
                     /\ p[1] = t
                     /\ networkCallsByTab[t][p[2]].request.requestId = r
                     /\ \A j \in 1..(p[2] - 1) :
                           networkCallsByTab[t][j].request.requestId # r]_vars

\* C32 witness: a tab holds two calls with one request id; a completion for
\* the id was attached, the first call has the response and the second is
\* still pending
C32_Witness ==
    /\ last.kind = "completed"
    /\ last.outcome = "attached"
    /\ \E t \in DOMAIN networkCallsByTab :
          /\ Len(networkCallsByTab[t]) = 2
          /\ networkCallsByTab[t][1].request.requestId
                = networkCallsByTab[t][2].request.requestId
          /\ networkCallsByTab[t][1].response # NullResponse
          /\ networkCallsByTab[t][2].response = NullResponse

\* C33: a TOGGLE_RECORDING without an enabled field changes neither the
\* in-memory flag nor durable storage (nor the writes on their way to it),
\* and replies {success: true, enabled: f} with the current flag f.
C33_ToggleWithoutFieldKeepsFlag ==
    [][(StepOf("TOGGLE_RECORDING") /\ last'.enabled = <<>>) =>
         /\ UNCHANGED <<isRecordingEnabled, storage, pendingWrites>>
         /\ last'.replied
         /\ last'.reply
               = <<[success |-> TRUE, enabled |-> isRecordingEnabled]>>]_vars

\* C33 witness: a TOGGLE_RECORDING without the field was handled while
\* recording was off, and the reply says so
C33_Witness ==
    /\ last.kind = "TOGGLE_RECORDING"
    /\ last.enabled = <<>>
    /\ ~isRecordingEnabled
    /\ storage = <<FALSE>>
    /\ pendingWrites = <<>>
    /\ last.reply = <<[success |-> TRUE, enabled |-> FALSE]>>

\* the handlers that have nothing to do with the recording flag
FlagReaders ==
    {"start", "completed", "tabRemoved", "tabActivated", "GET_NETWORK_CALLS",
     "CLEAR_NETWORK_CALLS", "GET_RECORDING_STATUS"}

\* C34: within one run of the background context the in-memory flag changes
\* only in a TOGGLE_RECORDING step whose message carries an enabled field and
\* in the step of the startup load callback; the request-start, completion,
\* tab-removed, active-tab-changed, GET_NETWORK_CALLS, CLEAR_NETWORK_CALLS and
\* GET_RECORDING_STATUS handlers leave the flag, durable storage and the
\* writes on their way to it unchanged.
C34_FlagChangesInTwoPlaces ==
    [][/\ (isRecordingEnabled' # isRecordingEnabled
             /\ last'.kind # "restart") =>
             \/ last'.kind = "TOGGLE_RECORDING" /\ last'.enabled # <<>>
             \/ last'.kind = "loaded"
       /\ (last'.kind \in FlagReaders
             /\ Len(pendingWrites') >= Len(pendingWrites)) =>
             UNCHANGED <<isRecordingEnabled, storage, pendingWrites>>]_vars

\* C34 witness: CLEAR_NETWORK_CALLS emptied a tab while recording was off and
\* storage said so, and both are as they were
C34_Witness ==
    /\ last.kind = "CLEAR_NETWORK_CALLS"
    /\ last.outcome = "clearedOne"
    /\ ~isRecordingEnabled
    /\ storage = <<FALSE>>
    /\ pendingWrites = <<>>

\* C35: a TOGGLE_RECORDING step leaves the key set and every stored record
\* as they were; while recording is off, GET_NETWORK_CALLS still replies with
\* every stored call and CLEAR_NETWORK_CALLS still empties every tab.
C35_ToggleKeepsCapturedData ==
    /\ [][StepOf("TOGGLE_RECORDING") =>
            networkCallsByTab' = networkCallsByTab]_vars
    /\ []((last.kind = "GET_NETWORK_CALLS" /\ ~isRecordingEnabled) =>
            \E o \in KeyOrders(networkCallsByTab) :
               Len(last.reply) = Len(ConcatTabs(networkCallsByTab, o))
               /\ \A i \in 1..Len(last.reply) :
                     last.reply[i].request.requestId
                        = ConcatTabs(networkCallsByTab, o)[i].request.requestId)
    /\ []((last.kind = "CLEAR_NETWORK_CALLS" /\ ~isRecordingEnabled) =>
            \A t \in DOMAIN networkCallsByTab : networkCallsByTab[t] = <<>>)

\* C35 witness: recording was switched off while two calls were stored, and
\* the GET_NETWORK_CALLS handled afterwards returned both
C35_Witness ==
    /\ last.kind = "GET_NETWORK_CALLS"
    /\ ~isRecordingEnabled
    /\ toggles.lastValue = <<FALSE>>
    /\ TotalCalls(networkCallsByTab) = 2
    /\ Len(last.reply) = 2

\* C36: every stored call that has a response has the request id of its
\* request in it.
C36_ResponseIdIsRequestId ==
    \A t \in DOMAIN networkCallsByTab :
       \A i \in 1..Len(networkCallsByTab[t]) :
          networkCallsByTab[t][i].response # NullResponse =>
             networkCallsByTab[t][i].response.requestId
                = networkCallsByTab[t][i].request.requestId

\* C36 witness: a tab holds two completed calls with different request ids
C36_Witness ==
    \E t \in DOMAIN networkCallsByTab :
       /\ Len(networkCallsByTab[t]) = 2
       /\ networkCallsByTab[t][1].response # NullResponse
       /\ networkCallsByTab[t][2].response # NullResponse
       /\ networkCallsByTab[t][1].request.requestId
             # networkCallsByTab[t][2].request.requestId

\* C38: a message of none of the four known types changes neither the store,
\* nor the flag, nor durable storage or the writes on their way to it, and
\* gets no reply.
C38_UnknownMessageIgnored ==
    /\ [][StepOf("OTHER_MESSAGE") =>
            UNCHANGED <<networkCallsByTab, isRecordingEnabled, storage,
                        pendingWrites>>]_vars
    /\ [](last.kind = "OTHER_MESSAGE" =>
            /\ ~last.replied
            /\ last.replies = 0
            /\ last.reply = <<>>)

\* C38 witness: an unknown message was handled while a call was stored,
\* recording was off and storage said so
C38_Witness ==
    /\ last.kind = "OTHER_MESSAGE"
    /\ TotalCalls(networkCallsByTab) = 1
    /\ ~isRecordingEnabled
    /\ storage = <<FALSE>>
    /\ ~last.replied

\* C37: whenever the panel is mounted and none of its messages and none of
\* the replies to them is in flight, the recording state the panel shows
\* equals the background's in-memory flag.
C37_Original ==
    (panel.mounted /\ panel.outbox = <<>> /\ panel.inbox = <<>>) =>
       panel.isRecording = isRecordingEnabled
====
